---- MODULE Spec2Model ----
(***************************************************************************)
(* The article detail page of react-news (NewsDetailPage in                *)
(* react-news/src/pages/TagPage.tsx): a snapshot fetch plus a change       *)
(* stream over the likes, comments and views relations, folded into the    *)
(* page's local state.  The backend (the hosted database and its change    *)
(* stream) is modelled by the rows it holds and the events in flight.      *)
(*                                                                         *)
(* Representation: a JavaScript null/undefined string or identifier is the *)
(* string Null, an absent payload row is NoRow, an absent count is         *)
(* NullCount; is_like (boolean | null) is one of "true", "false", "null".  *)
(* Rows keep the fields the handlers read (user_name of a comment is only  *)
(* displayed and is left out).  Change payloads carry full before-rows, as *)
(* the handlers' types declare.                                            *)
(***************************************************************************)
EXTENDS Integers, Sequences, FiniteSets, TLC

VARIABLES
    dbLikes,              \* likes relation: row id -> "absent" | "true" | "false" | "null" | "gone"
    dbComments,           \* comments relation: row id -> AbsentC | GoneC | live row
    dbViews,              \* views relation: article -> count, NullCount when no row
    stream,               \* change events committed and not yet delivered to the page
    id,                   \* useParams().id, the viewed article
    userId,               \* user?.id ?? null
    mounted,              \* the page instance is rendered
    newsItem,             \* useState: the article of the last applied snapshot
    comments,             \* useState
    likesCount,           \* useState
    dislikesCount,        \* useState
    viewCount,            \* useState
    userReaction,         \* useState
    loading,              \* useState
    error,                \* useState
    commentError,         \* useState
    isSubmittingComment,  \* useState
    isAwaitingCommentAck, \* useState
    pendingCommentId,     \* useState
    fetches,              \* fetchDetails calls in flight
    submit,               \* handleCommentSubmit call in flight
    isLiking,             \* useState
    hasIncrementedView,   \* useRef: the view of this activation has been reported
    incs,                 \* incrementViewCount calls in flight
    issued,               \* increment requests issued since the page was last activated
    channels,             \* open realtime channels, each with the values its handlers closed over
    likeCalls,            \* handleLikeAction calls in flight, one per page instance of the viewer
    viewers,              \* readers of the older page (src/pages/NewsDetailPage.tsx)
    feed,                 \* the feed page (src/pages/NewsPage.tsx)
    edge,                 \* the increment_view function: the request served last and its response
    budget,               \* backend changes and route or viewer changes still to come
    last                  \* the step taken last, and the event it handled

backendVars == <<dbLikes, dbComments, dbViews>>
reactionVars == <<likesCount, dislikesCount, userReaction>>
commentVars == <<comments, pendingCommentId, isAwaitingCommentAck>>
formVars == <<commentError, isSubmittingComment>>
snapshotVars == <<newsItem, loading, error>>
routeVars == <<id, userId, mounted>>
localVars == <<newsItem, comments, likesCount, dislikesCount, userReaction, viewCount,
               loading, error, commentError, isSubmittingComment, isAwaitingCommentAck,
               pendingCommentId>>
incrementVars == <<hasIncrementedView, incs, issued>>
likeVars == <<isLiking, likeCalls>>
otherPages == <<viewers, feed, edge>>
vars == <<dbLikes, dbComments, dbViews, stream, id, userId, mounted, newsItem, comments,
          likesCount, dislikesCount, viewCount, userReaction, loading, error, commentError,
          isSubmittingComment, isAwaitingCommentAck, pendingCommentId, fetches, submit,
          isLiking, hasIncrementedView, incs, issued, channels, likeCalls, viewers,
          feed, edge, budget, last>>

(***************************************************************************)
(* Bounds of the model.                                                    *)
(***************************************************************************)
MaxInputs == 2
MaxFoldInputs == 4
MaxRouteChanges == 1
MaxInvocations == 3
MaxOrderInputs == 3

(***************************************************************************)
(* The universe of rows.                                                   *)
(***************************************************************************)
Null == "null"
NoRow == [none |-> TRUE]
NullCount == 0 - 1

Articles == {"A", "B"}
RouteIds == Articles \cup {"X"}
Viewers == {Null, "u1"}

LikeOrder == <<"r1", "r2", "r3", "r4">>
LikeIds == {LikeOrder[i] : i \in DOMAIN LikeOrder}
LikeHome ==
    [r1 |-> [news_id |-> "A", user_id |-> "u1"],
     r2 |-> [news_id |-> "A", user_id |-> "u2"],
     r3 |-> [news_id |-> "B", user_id |-> "u1"],
     r4 |-> [news_id |-> "A", user_id |-> "u1"]]
\* the rows other sessions write, one for each (article, user) pair; r4 is the row a
\* further insert of handleLikeAction for (A, u1) creates
FirstLikeIds == {"r1", "r2", "r3"}
WrittenIsLike == {"true", "false"}
\* is_like is typed boolean | null: a stored row may carry no polarity.
StoredIsLike == WrittenIsLike \cup {Null}

CommentOrder == <<"c1", "c2", "c3">>
CommentIds == {CommentOrder[i] : i \in DOMAIN CommentOrder}
CommentHome == [c1 |-> "A", c2 |-> "A", c3 |-> "B"]
Timestamps == {"T0", "T0z", "T1"}
AbsentC == [st |-> "absent"]
GoneC == [st |-> "gone"]

LikeRecord(r, p) ==
    [id |-> r, news_id |-> LikeHome[r].news_id, user_id |-> LikeHome[r].user_id, is_like |-> p]
NewsComment(c, text, ts) ==
    [id |-> c, news_id |-> CommentHome[c], text |-> text, created_at |-> ts]
ViewRecord(a, n) == [news_id |-> a, count |-> n]

Payload(table, eventType, new, old) ==
    [table |-> table, eventType |-> eventType, new |-> new, old |-> old]
NoPayload == [table |-> Null, eventType |-> Null, new |-> NoRow, old |-> NoRow]

(***************************************************************************)
(* Pure helpers of the page.                                               *)
(***************************************************************************)
Max(a, b) == IF a >= b THEN a ELSE b

\* new Date(created_at).getTime(): "T0" and "T0z" are two spellings of one instant
GetTime(ts) == CASE ts = "T0" -> 0 [] ts = "T0z" -> 0 [] ts = "T1" -> 1

CompareNothing(a, b) == 0

\* the comparator of sortCommentsByDate: negative, zero or positive
CompareByDate(a, b) == GetTime(a.created_at) - GetTime(b.created_at)

\* Array.prototype.sort is stable: an element goes after every element that does
\* not compare greater than it
RECURSIVE InsertByDate(_, _)
InsertByDate(sorted, c) ==
    IF sorted = <<>> THEN <<c>>
    ELSE IF CompareByDate(Head(sorted), c) > 0 THEN <<c>> \o sorted
    ELSE <<Head(sorted)>> \o InsertByDate(Tail(sorted), c)

RECURSIVE SortFrom(_, _)
SortFrom(sorted, rest) ==
    IF rest = <<>> THEN sorted ELSE SortFrom(InsertByDate(sorted, Head(rest)), Tail(rest))

sortCommentsUnsorted(list) == list

sortCommentsByDate(list) == SortFrom(<<>>, list)

ViewsArray(rows) == [shape |-> "array", rows |-> rows]
ViewsObject(row) == [shape |-> "object", rows |-> <<row>>]
NoViews == [shape |-> Null, rows |-> <<>>]

coerceViewCount(views) ==
    IF views.shape = Null THEN 0
    ELSE IF views.rows = <<>> THEN 0
    ELSE IF views.rows[1].count = NullCount THEN 0
    ELSE views.rows[1].count

\* newRow?.news_id ?? oldRow?.news_id
TargetId(payload) ==
    IF payload.new # NoRow THEN payload.new.news_id
    ELSE IF payload.old # NoRow THEN payload.old.news_id
    ELSE Null

IsOtherArticleToo(targetId, vid) == targetId # Null

\* the negation of the handlers' early return: !targetId || targetId !== id
IsActiveArticle(targetId, vid) == targetId # Null /\ targetId = vid

DecrementUnfloored(prev) == prev - 1

DecrementForgotten(prev) == prev

\* (prev) => Math.max(prev - 1, 0)
DecrementFloored(prev) == Max(prev - 1, 0)

Truthy(isLike) == isLike = "true"

ReactionOfInverted(isLike) == IF Truthy(isLike) THEN "dislike" ELSE "like"

\* is_like ? 'like' : 'dislike'
ReactionOf(isLike) == IF Truthy(isLike) THEN "like" ELSE "dislike"

\* userId && row.user_id === userId
IsViewerUnchecked(row, uid) == TRUE
IsViewer(row, uid) == uid # Null /\ row.user_id = uid

SamePolarityNever(oldLike, newLike) == FALSE
SamePolarity(oldLike, newLike) == oldLike.is_like = newLike.is_like

ReactionState(likes, dislikes, reaction, refetch) ==
    [likesCount |-> likes, dislikesCount |-> dislikes, userReaction |-> reaction,
     refetch |-> refetch]

handleLikeChange(st, payload, vid, uid) ==
    LET newLike == payload.new
        oldLike == payload.old
        keep == ReactionState(st.likesCount, st.dislikesCount, st.userReaction, FALSE)
    IN  IF ~IsActiveArticle(TargetId(payload), vid) THEN keep
        ELSE IF payload.eventType = "INSERT" /\ newLike # NoRow THEN
            ReactionState(
                IF Truthy(newLike.is_like) THEN st.likesCount + 1 ELSE st.likesCount,
                IF Truthy(newLike.is_like) THEN st.dislikesCount ELSE st.dislikesCount + 1,
                IF IsViewer(newLike, uid) THEN ReactionOf(newLike.is_like) ELSE st.userReaction,
                FALSE)
        ELSE IF payload.eventType = "DELETE" /\ oldLike # NoRow THEN
            ReactionState(
                IF Truthy(oldLike.is_like) THEN DecrementFloored(st.likesCount)
                                           ELSE st.likesCount,
                IF Truthy(oldLike.is_like) THEN st.dislikesCount
                                           ELSE DecrementFloored(st.dislikesCount),
                IF IsViewer(oldLike, uid) THEN Null ELSE st.userReaction,
                FALSE)
        ELSE IF payload.eventType = "UPDATE" /\ newLike # NoRow /\ oldLike # NoRow THEN
            IF SamePolarity(oldLike, newLike) THEN keep
            ELSE ReactionState(
                IF Truthy(newLike.is_like) THEN st.likesCount + 1
                                           ELSE DecrementFloored(st.likesCount),
                IF Truthy(newLike.is_like) THEN DecrementFloored(st.dislikesCount)
                                           ELSE st.dislikesCount + 1,
                IF IsViewer(newLike, uid) THEN ReactionOf(newLike.is_like) ELSE st.userReaction,
                FALSE)
        ELSE IF payload.eventType = "TRUNCATE" THEN ReactionState(0, 0, Null, TRUE)
        ELSE keep

RemoveNone(list, cid) == list

\* prev.filter((c) => c.id !== id)
RemoveById(list, cid) == SelectSeq(list, LAMBDA c : c.id # cid)

AppendComment(prev, c) == Append(prev, c)

\* [...prev.filter((c) => c.id !== newComment.id), newComment]
ReplaceComment(prev, c) == Append(RemoveById(prev, c.id), c)

CommentState(list, pending, awaiting) ==
    [comments |-> list, pendingCommentId |-> pending, isAwaitingCommentAck |-> awaiting]

handleCommentChange(st, payload, vid) ==
    LET newComment == payload.new
        oldComment == payload.old
    IN  IF ~IsActiveArticle(TargetId(payload), vid) THEN st
        ELSE IF payload.eventType = "INSERT" /\ newComment # NoRow THEN
            LET list == sortCommentsByDate(ReplaceComment(st.comments, newComment))
            IN  IF st.pendingCommentId # Null /\ newComment.id = st.pendingCommentId
                THEN CommentState(list, Null, FALSE)
                ELSE CommentState(list, st.pendingCommentId, st.isAwaitingCommentAck)
        ELSE IF payload.eventType = "UPDATE" /\ newComment # NoRow THEN
            CommentState(sortCommentsByDate(ReplaceComment(st.comments, newComment)),
                         st.pendingCommentId, st.isAwaitingCommentAck)
        ELSE IF payload.eventType = "DELETE" /\ oldComment # NoRow THEN
            CommentState(RemoveById(st.comments, oldComment.id),
                         st.pendingCommentId, st.isAwaitingCommentAck)
        ELSE IF payload.eventType = "TRUNCATE" THEN CommentState(<<>>, Null, FALSE)
        ELSE st

handleViewChangeMonotone(prev, payload, vid) ==
    IF ~IsActiveArticle(TargetId(payload), vid) THEN prev
    ELSE IF payload.new # NoRow /\ payload.new.count # NullCount
         THEN Max(prev, payload.new.count)
    ELSE prev

handleViewChange(prev, payload, vid) ==
    IF ~IsActiveArticle(TargetId(payload), vid) THEN prev
    ELSE IF payload.eventType = "TRUNCATE" THEN 0
    ELSE IF payload.new # NoRow /\ payload.new.count # NullCount THEN payload.new.count
    ELSE prev

(***************************************************************************)
(* The backend: rows, the snapshot query and the change stream.            *)
(***************************************************************************)
\* the record of a step: its name, the event a handler was given, the two reaction
\* counters as handleLikeChange found them, and the response a continuation was given
StepWith(op, ev, pre, res) == last' = [op |-> op, ev |-> ev, pre |-> pre, res |-> res]

Step(op, ev) ==
    StepWith(op, ev,
             IF op = "DeliverLike" THEN <<likesCount, dislikesCount>>
             ELSE IF op = "DeliverView" THEN <<viewCount, 0>>
             ELSE <<0, 0>>,
             [kind |-> "none"])

IsLive(r) == dbLikes[r] \notin {"absent", "gone"}
IsLiveC(c) == dbComments[c] \notin {AbsentC, GoneC}

LikesOf(a) ==
    LET ids == SelectSeq(LikeOrder, LAMBDA r : IsLive(r) /\ LikeHome[r].news_id = a)
    IN  [i \in DOMAIN ids |-> LikeRecord(ids[i], dbLikes[ids[i]])]

CommentsOf(a) ==
    LET ids == SelectSeq(CommentOrder, LAMBDA c : IsLiveC(c) /\ CommentHome[c] = a)
    IN  [i \in DOMAIN ids |-> dbComments[ids[i]]]

ViewsOf(a) ==
    ViewsArray(IF dbViews[a] = NullCount THEN <<>> ELSE <<[count |-> dbViews[a]]>>)

Pending == [kind |-> "pending"]
Failed == [kind |-> "error"]
NotFound == [kind |-> "notfound"]

\* the answer of the select ... .eq('id', id).maybeSingle() query of fetchDetails
Snapshot(a) ==
    IF a \notin Articles THEN NotFound
    ELSE [kind |-> "ok", id |-> a, comments |-> CommentsOf(a), likes |-> LikesOf(a),
          views |-> ViewsOf(a)]

\* a committed change reaches the page's channel only while the page is subscribed
Emit(ev) == stream' = IF mounted THEN Append(stream, ev) ELSE stream

\* the backend is followed until the page is abandoned
CanCommit == budget > 0 /\ (mounted \/ id = Null)

InsertLike(r, p) ==
    /\ CanCommit /\ dbLikes[r] = "absent"
    /\ dbLikes' = [dbLikes EXCEPT ![r] = p]
    /\ Emit(Payload("likes", "INSERT", LikeRecord(r, p), NoRow))
    /\ budget' = budget - 1
    /\ Step("InsertLike", NoPayload)
    /\ UNCHANGED <<dbComments, dbViews, routeVars, localVars, fetches, submit,
                   incrementVars, channels, likeVars, otherPages>>

UpdateLike(r, p) ==
    /\ CanCommit /\ IsLive(r)
    /\ dbLikes' = [dbLikes EXCEPT ![r] = p]
    /\ Emit(Payload("likes", "UPDATE", LikeRecord(r, p), LikeRecord(r, dbLikes[r])))
    /\ budget' = budget - 1
    /\ Step("UpdateLike", NoPayload)
    /\ UNCHANGED <<dbComments, dbViews, routeVars, localVars, fetches, submit,
                   incrementVars, channels, likeVars, otherPages>>

DeleteLike(r) ==
    /\ CanCommit /\ IsLive(r)
    /\ dbLikes' = [dbLikes EXCEPT ![r] = "gone"]
    /\ Emit(Payload("likes", "DELETE", NoRow, LikeRecord(r, dbLikes[r])))
    /\ budget' = budget - 1
    /\ Step("DeleteLike", NoPayload)
    /\ UNCHANGED <<dbComments, dbViews, routeVars, localVars, fetches, submit,
                   incrementVars, channels, likeVars, otherPages>>

InsertComment(c, text, ts) ==
    /\ CanCommit /\ dbComments[c] = AbsentC
    /\ dbComments' = [dbComments EXCEPT ![c] = NewsComment(c, text, ts)]
    /\ Emit(Payload("comments", "INSERT", NewsComment(c, text, ts), NoRow))
    /\ budget' = budget - 1
    /\ Step("InsertComment", NoPayload)
    /\ UNCHANGED <<dbLikes, dbViews, routeVars, localVars, fetches, submit,
                   incrementVars, channels, likeVars, otherPages>>

UpdateComment(c, text, ts) ==
    /\ CanCommit /\ IsLiveC(c) /\ dbComments[c] # NewsComment(c, text, ts)
    /\ dbComments' = [dbComments EXCEPT ![c] = NewsComment(c, text, ts)]
    /\ Emit(Payload("comments", "UPDATE", NewsComment(c, text, ts), dbComments[c]))
    /\ budget' = budget - 1
    /\ Step("UpdateComment", NoPayload)
    /\ UNCHANGED <<dbLikes, dbViews, routeVars, localVars, fetches, submit,
                   incrementVars, channels, likeVars, otherPages>>

DeleteComment(c) ==
    /\ CanCommit /\ IsLiveC(c)
    /\ dbComments' = [dbComments EXCEPT ![c] = GoneC]
    /\ Emit(Payload("comments", "DELETE", NoRow, dbComments[c]))
    /\ budget' = budget - 1
    /\ Step("DeleteComment", NoPayload)
    /\ UNCHANGED <<dbLikes, dbViews, routeVars, localVars, fetches, submit,
                   incrementVars, channels, likeVars, otherPages>>

\* another reader's view of article a: the views row is created or its count raised
UpsertView(a) ==
    /\ CanCommit
    /\ LET n == IF dbViews[a] = NullCount THEN 1 ELSE dbViews[a] + 1
       IN  /\ dbViews' = [dbViews EXCEPT ![a] = n]
           /\ Emit(IF dbViews[a] = NullCount
                   THEN Payload("views", "INSERT", ViewRecord(a, n), NoRow)
                   ELSE Payload("views", "UPDATE", ViewRecord(a, n), ViewRecord(a, dbViews[a])))
    /\ budget' = budget - 1
    /\ Step("UpsertView", NoPayload)
    /\ UNCHANGED <<dbLikes, dbComments, routeVars, localVars, fetches, submit,
                   incrementVars, channels, likeVars, otherPages>>

\* TRUNCATE of one relation: every row goes, the event carries no row
\* The views row of an article is removed; the event carries the removed row only.
DeleteView(a) ==
    /\ CanCommit
    /\ dbViews[a] # NullCount
    /\ dbViews' = [dbViews EXCEPT ![a] = NullCount]
    /\ Emit(Payload("views", "DELETE", NoRow, ViewRecord(a, dbViews[a])))
    /\ budget' = budget - 1
    /\ Step("DeleteView", NoPayload)
    /\ UNCHANGED <<dbLikes, dbComments, routeVars, localVars, fetches, submit,
                   incrementVars, channels, likeVars, otherPages>>

Truncate(table) ==
    /\ CanCommit
    /\ dbLikes' = IF table = "likes"
                  THEN [r \in LikeIds |-> IF IsLive(r) THEN "gone" ELSE dbLikes[r]]
                  ELSE dbLikes
    /\ dbComments' = IF table = "comments"
                     THEN [c \in CommentIds |-> IF IsLiveC(c) THEN GoneC ELSE dbComments[c]]
                     ELSE dbComments
    /\ dbViews' = IF table = "views" THEN [a \in Articles |-> NullCount] ELSE dbViews
    /\ Emit(Payload(table, "TRUNCATE", NoRow, NoRow))
    /\ budget' = budget - 1
    /\ Step("Truncate", NoPayload)
    /\ UNCHANGED <<routeVars, localVars, fetches, submit,
                   incrementVars, channels, likeVars, otherPages>>

(***************************************************************************)
(* The page: route and viewer, the snapshot fetch, the stream handlers and *)
(* the comment form.                                                       *)
(***************************************************************************)
Remove(seq, i) == [j \in 1..(Len(seq) - 1) |-> IF j < i THEN seq[j] ELSE seq[j + 1]]

\* the row an event is about: a likes or comments row id, a views row's article
RowKey(ev) ==
    LET row == IF ev.new # NoRow THEN ev.new ELSE ev.old
    IN  IF row = NoRow THEN Null ELSE IF ev.table = "views" THEN row.news_id ELSE row.id

\* events of one row, and a TRUNCATE with the events of its relation, keep commit order
Ordered(e1, e2) ==
    /\ e1.table = e2.table
    /\ (e1.eventType = "TRUNCATE" \/ e2.eventType = "TRUNCATE" \/ RowKey(e1) = RowKey(e2))

Deliverable(i) ==
    /\ mounted
    /\ i \in DOMAIN stream
    /\ \A j \in 1..(i - 1) : ~Ordered(stream[j], stream[i])

\* fetchDetails up to its await: setLoading(true), setError(null), the query is sent
StartFetch(a, u) ==
    /\ loading' = TRUE
    /\ error' = Null
    /\ fetches' = Append(fetches, [id |-> a, userId |-> u, res |-> Pending])

NoSubmit == [id |-> Null, res |-> Pending]

ViewEffectUnguarded(a, shownLoading, has, n) ==
    IF a = Null \/ shownLoading
    THEN /\ hasIncrementedView' = has /\ incs' = incs /\ issued' = n
    ELSE /\ hasIncrementedView' = TRUE
         /\ incs' = Append(incs, [id |-> a, res |-> Pending, own |-> TRUE])
         /\ issued' = n + 1

\* the view-increment effect, run after a render that showed article a with the
\* given loading flag: if (!id || loading || hasIncrementedView.current) return;
\* otherwise the ref is set and incrementViewCount is called.  n counts the
\* requests of the activation so far.
ViewEffect(a, shownLoading, has, n) ==
    IF a = Null \/ shownLoading \/ has
    THEN /\ hasIncrementedView' = has /\ incs' = incs /\ issued' = n
    ELSE /\ hasIncrementedView' = TRUE
         /\ incs' = Append(incs, [id |-> a, res |-> Pending, own |-> TRUE])
         /\ issued' = n + 1

\* a channel with the values its three handlers closed over
Channel(a, u, p) == [id |-> a, userId |-> u, pendingCommentId |-> p]

KeepChannel(chs, ch) == chs

\* supabase.removeChannel(channel), the cleanup of the subscription effect
removeChannel(chs, ch) == SelectSeq(chs, LAMBDA c : c # ch)

\* the subscription effect after a render: when id or a handler has changed, the
\* cleanup of the previous run removes its channel and a new channel is subscribed
Resubscribe(chs, a, u, p) ==
    IF chs # <<>> /\ chs[Len(chs)] = Channel(a, u, p) THEN chs
    ELSE Append(IF chs = <<>> THEN chs ELSE removeChannel(chs, chs[Len(chs)]),
                Channel(a, u, p))

Mount(a, u) ==
    /\ ~mounted /\ id = Null
    /\ id' = a /\ userId' = u /\ mounted' = TRUE
    /\ StartFetch(a, u)
    /\ ViewEffect(a, loading, FALSE, 0)
    /\ channels' = Resubscribe(channels, a, u, pendingCommentId)
    /\ Step("Mount", NoPayload)
    /\ UNCHANGED <<backendVars, stream, newsItem, comments, reactionVars, viewCount, formVars,
                   isAwaitingCommentAck, pendingCommentId, submit, likeVars, otherPages, budget>>

\* the route changes within the page instance: the ref is reset, fetchDetails is
\* called, and the view-increment effect sees the loading flag of this render
Navigate(b) ==
    /\ mounted /\ budget > 0 /\ b # id
    /\ id' = b
    /\ StartFetch(b, userId)
    /\ ViewEffect(b, loading, FALSE, 0)
    /\ channels' = Resubscribe(channels, b, userId, pendingCommentId)
    /\ budget' = budget - 1
    /\ Step("Navigate", NoPayload)
    /\ UNCHANGED <<backendVars, stream, userId, mounted, newsItem, comments, reactionVars,
                   viewCount, formVars, isAwaitingCommentAck, pendingCommentId, submit,
                   likeVars, otherPages>>

SetUser(u) ==
    /\ mounted /\ budget > 0 /\ u # userId
    /\ userId' = u
    /\ StartFetch(id, u)
    /\ channels' = Resubscribe(channels, id, u, pendingCommentId)
    /\ budget' = budget - 1
    /\ Step("SetUser", NoPayload)
    /\ UNCHANGED <<backendVars, stream, id, mounted, newsItem, comments, reactionVars,
                   viewCount, formVars, isAwaitingCommentAck, pendingCommentId, submit,
                   incrementVars, likeVars, otherPages>>

\* the effect cleanup removes the channel: no callback runs afterwards
Unmount ==
    /\ mounted
    /\ mounted' = FALSE
    /\ stream' = <<>>
    /\ channels' = removeChannel(channels, channels[Len(channels)])
    /\ Step("Unmount", NoPayload)
    /\ UNCHANGED <<backendVars, id, userId, localVars, fetches, submit, incrementVars,
                   likeVars, otherPages, budget>>

\* the backend answers a query in flight: a transport error, or the rows as they are now
FetchAnswer(i) ==
    /\ i \in DOMAIN fetches /\ fetches[i].res = Pending
    /\ \E res \in {Failed, Snapshot(fetches[i].id)} :
           fetches' = [fetches EXCEPT ![i].res = res]
    /\ Step("FetchAnswer", NoPayload)
    /\ UNCHANGED <<backendVars, stream, routeVars, localVars, submit, incrementVars, channels,
                   likeVars, otherPages, budget>>

CountLikes(likes) == Len(SelectSeq(likes, LAMBDA l : Truthy(l.is_like)))
CountDislikes(likes) == Len(SelectSeq(likes, LAMBDA l : l.is_like = "false"))

\* userId ? likeRecords.find((like) => like.user_id === userId) : undefined
UserLike(likes, u) ==
    LET mine == SelectSeq(likes, LAMBDA l : u # Null /\ l.user_id = u)
    IN  IF mine = <<>> THEN NoRow ELSE mine[1]

\* fetchDetails after its await; the setters of an unmounted component do nothing.
\* The render that follows setLoading(false) runs the view-increment effect.
FetchResolve(i) ==
    /\ i \in DOMAIN fetches /\ fetches[i].res # Pending
    /\ fetches' = Remove(fetches, i)
    /\ IF mounted /\ loading THEN ViewEffect(id, FALSE, hasIncrementedView, issued)
                             ELSE UNCHANGED incrementVars
    /\ LET f == fetches[i] IN
       IF ~mounted THEN UNCHANGED <<newsItem, comments, reactionVars, viewCount, loading, error>>
       ELSE IF f.res.kind = "error" THEN
            /\ error' = "fetch failed" /\ loading' = FALSE
            /\ UNCHANGED <<newsItem, comments, reactionVars, viewCount>>
       ELSE IF f.res.kind = "notfound" THEN
            /\ error' = "News article not found." /\ loading' = FALSE
            /\ UNCHANGED <<newsItem, comments, reactionVars, viewCount>>
       ELSE /\ newsItem' = f.res.id
            /\ comments' = sortCommentsByDate(f.res.comments)
            /\ likesCount' = CountLikes(f.res.likes)
            /\ dislikesCount' = CountDislikes(f.res.likes)
            /\ userReaction' = LET userLike == UserLike(f.res.likes, f.userId)
                               IN  IF userLike # NoRow THEN ReactionOf(userLike.is_like) ELSE Null
            /\ viewCount' = coerceViewCount(f.res.views)
            /\ loading' = FALSE
            /\ UNCHANGED error
    /\ Step("FetchResolve", NoPayload)
    /\ UNCHANGED <<backendVars, stream, routeVars, formVars, isAwaitingCommentAck,
                   pendingCommentId, submit, channels, likeVars, otherPages, budget>>

DeliverLike(i) ==
    /\ Deliverable(i) /\ stream[i].table = "likes"
    /\ stream' = Remove(stream, i)
    /\ LET st == handleLikeChange(ReactionState(likesCount, dislikesCount, userReaction, FALSE),
                                  stream[i], id, userId)
       IN  /\ likesCount' = st.likesCount
           /\ dislikesCount' = st.dislikesCount
           /\ userReaction' = st.userReaction
           /\ IF st.refetch THEN StartFetch(id, userId) ELSE UNCHANGED <<loading, error, fetches>>
    /\ Step("DeliverLike", stream[i])
    /\ UNCHANGED <<backendVars, routeVars, newsItem, commentVars, viewCount, formVars, submit,
                   incrementVars, channels, likeVars, otherPages, budget>>

DeliverComment(i) ==
    /\ Deliverable(i) /\ stream[i].table = "comments"
    /\ stream' = Remove(stream, i)
    /\ LET st == handleCommentChange(
                     CommentState(comments, pendingCommentId, isAwaitingCommentAck),
                     stream[i], id)
       IN  /\ comments' = st.comments
           /\ pendingCommentId' = st.pendingCommentId
           /\ isAwaitingCommentAck' = st.isAwaitingCommentAck
           /\ channels' = Resubscribe(channels, id, userId, st.pendingCommentId)
    /\ StepWith("DeliverComment", stream[i], <<0, 0>>,
                [kind |-> "awaited", id |-> pendingCommentId])
    /\ UNCHANGED <<backendVars, routeVars, snapshotVars, reactionVars, viewCount, formVars,
                   fetches, submit, incrementVars, likeVars, otherPages, budget>>

DeliverView(i) ==
    /\ Deliverable(i) /\ stream[i].table = "views"
    /\ stream' = Remove(stream, i)
    /\ viewCount' = handleViewChange(viewCount, stream[i], id)
    /\ Step("DeliverView", stream[i])
    /\ UNCHANGED <<backendVars, routeVars, snapshotVars, reactionVars, commentVars, formVars,
                   fetches, submit, incrementVars, channels, likeVars, otherPages, budget>>

\* handleCommentSubmit up to its await, for a form that passes the name and text
\* checks; the form is disabled while a submission is being posted or awaits its echo
SubmitStart ==
    /\ mounted /\ submit = NoSubmit /\ ~isSubmittingComment /\ ~isAwaitingCommentAck
    /\ CanCommit
    /\ commentError' = Null
    /\ isSubmittingComment' = TRUE
    /\ isAwaitingCommentAck' = TRUE
    /\ submit' = [id |-> id, res |-> Pending]
    /\ budget' = budget - 1
    /\ Step("SubmitStart", NoPayload)
    /\ UNCHANGED <<backendVars, stream, routeVars, snapshotVars, reactionVars, comments,
                   viewCount, pendingCommentId, fetches, incrementVars, channels, likeVars,
                   otherPages>>

\* the backend runs the insert: a new row with its own id and timestamp, or an error
SubmitCommit ==
    /\ submit # NoSubmit /\ submit.res = Pending
    /\ \/ /\ submit' = [submit EXCEPT !.res = Failed]
          /\ UNCHANGED <<dbComments, stream>>
       \/ \E c \in CommentIds, ts \in Timestamps :
            /\ dbComments[c] = AbsentC /\ CommentHome[c] = submit.id
            /\ dbComments' = [dbComments EXCEPT ![c] = NewsComment(c, "hi", ts)]
            /\ Emit(Payload("comments", "INSERT", NewsComment(c, "hi", ts), NoRow))
            /\ submit' = [submit EXCEPT !.res = [kind |-> "ok", row |-> NewsComment(c, "hi", ts)]]
    /\ Step("SubmitCommit", NoPayload)
    /\ UNCHANGED <<dbLikes, dbViews, routeVars, localVars, fetches, incrementVars, channels,
                   likeVars, otherPages, budget>>

\* handleCommentSubmit after its await
SubmitResolve ==
    /\ submit # NoSubmit /\ submit.res # Pending
    /\ submit' = NoSubmit
    /\ IF ~mounted THEN UNCHANGED <<commentVars, formVars>>
       ELSE IF submit.res.kind = "error" THEN
            /\ commentError' = "insert failed"
            /\ isAwaitingCommentAck' = FALSE
            /\ pendingCommentId' = Null
            /\ isSubmittingComment' = FALSE
            /\ UNCHANGED comments
       ELSE /\ pendingCommentId' = submit.res.row.id
            /\ comments' = sortCommentsByDate(ReplaceComment(comments, submit.res.row))
            /\ isSubmittingComment' = FALSE
            /\ UNCHANGED <<commentError, isAwaitingCommentAck>>
    /\ channels' = IF mounted THEN Resubscribe(channels, id, userId, pendingCommentId')
                              ELSE channels
    /\ StepWith("SubmitResolve", NoPayload, <<0, 0>>,
                IF submit.res.kind = "ok" THEN submit.res.row ELSE [kind |-> "none"])
    /\ UNCHANGED <<backendVars, stream, routeVars, snapshotVars, reactionVars, viewCount,
                   fetches, incrementVars, likeVars, otherPages, budget>>

\* another reader's page calls increment_view for article a
InvokeIncrement(a) ==
    /\ budget > 0
    /\ incs' = Append(incs, [id |-> a, res |-> Pending, own |-> FALSE])
    /\ budget' = budget - 1
    /\ Step("InvokeIncrement", NoPayload)
    /\ UNCHANGED <<backendVars, stream, routeVars, localVars, fetches, submit,
                   hasIncrementedView, issued, channels, likeVars, otherPages>>

UpsertOverwrite(count) == 1

\* insert into views (news_id, count) values (newsId, 1)
\*   on conflict (news_id) do update set count = views.count + 1 returning count
UpsertIncrement(count) == IF count = NullCount THEN 1 ELSE count + 1

\* the body of a 200 response of increment_view, and one without a count
Counted(n) == [kind |-> "ok", views |-> n]
Uncounted == [kind |-> "ok", views |-> NullCount]

\* the increment_view function runs the request: the statement commits and the new
\* count is returned, or the invocation fails (no such article, a database error)
IncrementCommit(i) ==
    /\ i \in DOMAIN incs /\ incs[i].res = Pending
    /\ \/ /\ incs' = [incs EXCEPT ![i].res = Failed]
          /\ UNCHANGED <<dbViews, stream>>
       \/ /\ incs[i].id \in Articles
          /\ LET a == incs[i].id
                 n == UpsertIncrement(dbViews[a])
             IN  /\ dbViews' = [dbViews EXCEPT ![a] = n]
                 /\ Emit(IF dbViews[a] = NullCount
                         THEN Payload("views", "INSERT", ViewRecord(a, n), NoRow)
                         ELSE Payload("views", "UPDATE", ViewRecord(a, n),
                                      ViewRecord(a, dbViews[a])))
                 /\ incs' = [incs EXCEPT ![i].res = Counted(n)]
    /\ StepWith("IncrementCommit", NoPayload, <<0, 0>>, incs'[i].res)
    /\ UNCHANGED <<dbLikes, dbComments, routeVars, localVars, fetches, submit,
                   hasIncrementedView, issued, channels, likeVars, otherPages, budget>>

\* a 200 response whose body carries no count (views?: number)
IncrementCommitUncounted(i) ==
    /\ i \in DOMAIN incs /\ incs[i].res = Pending /\ incs[i].id \in Articles
    /\ LET a == incs[i].id
           n == UpsertIncrement(dbViews[a])
       IN  /\ dbViews' = [dbViews EXCEPT ![a] = n]
           /\ Emit(IF dbViews[a] = NullCount
                   THEN Payload("views", "INSERT", ViewRecord(a, n), NoRow)
                   ELSE Payload("views", "UPDATE", ViewRecord(a, n),
                                ViewRecord(a, dbViews[a])))
           /\ incs' = [incs EXCEPT ![i].res = Uncounted]
    /\ StepWith("IncrementCommitUncounted", NoPayload, <<0, 0>>, Uncounted)
    /\ UNCHANGED <<dbLikes, dbComments, routeVars, localVars, fetches, submit,
                   hasIncrementedView, issued, channels, likeVars, otherPages, budget>>

ApplyIncrementAlways(prev, res) ==
    IF res.kind = "ok" /\ res.views # NullCount THEN res.views ELSE prev + 1

\* incrementViewCount after its await: error -> return; data?.views != null ->
\* setViewCount(data.views); otherwise setViewCount((prev) => prev + 1)
ApplyIncrement(prev, res) ==
    IF res.kind = "error" THEN prev
    ELSE IF res.views # NullCount THEN res.views
    ELSE prev + 1

IncrementResolve(i) ==
    /\ i \in DOMAIN incs /\ incs[i].res # Pending
    /\ incs' = Remove(incs, i)
    /\ viewCount' = IF mounted /\ incs[i].own THEN ApplyIncrement(viewCount, incs[i].res)
                                             ELSE viewCount
    /\ StepWith("IncrementResolve", NoPayload, <<viewCount, 0>>, incs[i].res)
    /\ UNCHANGED <<backendVars, stream, routeVars, snapshotVars, reactionVars, commentVars,
                   formVars, fetches, submit, hasIncrementedView, issued, channels, likeVars,
                   otherPages, budget>>

(***************************************************************************)
(* handleLikeAction, called on this page ("here") and on another page      *)
(* instance of the same viewer showing the same article ("there").  Only   *)
(* this page's local state is kept.                                        *)
(***************************************************************************)
Instances == {"here", "there"}
NoCall == [phase |-> "idle", isLike |-> Null, id |-> Null, userId |-> Null,
           existing |-> NoRow, write |-> Null, failed |-> FALSE]

\* if (existing) { existing.is_like === isLike ? delete : update } else insert
ChooseWrite(existing, isLike) ==
    IF existing = NoRow THEN "insert"
    ELSE IF existing.is_like = isLike THEN "delete"
    ELSE "update"

ReactionAfterWriteOptimistic(prev, write, isLike, failed) ==
    IF write = "delete" THEN Null ELSE ReactionOf(isLike)

\* the last setters of handleLikeAction: on an error only setError, else
\* setUserReaction(null) after a delete and setUserReaction(isLike ? ...) otherwise
ReactionAfterWrite(prev, write, isLike, failed) ==
    IF failed THEN prev
    ELSE IF write = "delete" THEN Null
    ELSE ReactionOf(isLike)

\* handleLikeAction up to its first await
LikeStart(k, isLike) ==
    /\ mounted /\ budget > 0 /\ likeCalls[k].phase = "idle"
    /\ k = "here" => ~isLiking
    /\ k = "there" => userId # Null
    /\ IF userId = Null
       THEN /\ error' = "Please sign in to react to this article."
            /\ UNCHANGED likeVars
       ELSE /\ likeCalls' = [likeCalls EXCEPT ![k] =
                                [NoCall EXCEPT !.phase = "lookup", !.isLike = isLike,
                                               !.id = id, !.userId = userId]]
            /\ isLiking' = IF k = "here" THEN TRUE ELSE isLiking
            /\ error' = IF k = "here" THEN Null ELSE error
    /\ budget' = budget - 1
    /\ Step("LikeStart", NoPayload)
    /\ UNCHANGED <<backendVars, stream, routeVars, newsItem, loading, reactionVars, commentVars,
                   viewCount, formVars, fetches, submit, incrementVars, channels, otherPages>>

\* the rows select('id, is_like').eq('news_id', id).eq('user_id', userId) matches
MatchingLikes(a, u) == SelectSeq(LikesOf(a), LAMBDA l : l.user_id = u)

\* the backend answers the lookup: maybeSingle() gives the row, null when there is
\* none, and an error when there are several; the request may also fail
LikeLookup(k) ==
    /\ likeCalls[k].phase = "lookup"
    /\ LET rows == IF likeCalls[k].id \in Articles
                   THEN MatchingLikes(likeCalls[k].id, likeCalls[k].userId) ELSE <<>>
       IN  \/ likeCalls' = [likeCalls EXCEPT ![k].phase = "looked", ![k].failed = TRUE]
           \/ /\ Len(rows) <= 1
              /\ likeCalls' = [likeCalls EXCEPT ![k].phase = "looked",
                                   ![k].existing = IF rows = <<>> THEN NoRow ELSE rows[1]]
    /\ Step("LikeLookup", NoPayload)
    /\ UNCHANGED <<backendVars, stream, routeVars, localVars, fetches, submit, incrementVars,
                   channels, isLiking, otherPages, budget>>

\* handleLikeAction after the lookup: an error ends the call, else a write is sent
LikeDecide(k) ==
    /\ likeCalls[k].phase = "looked"
    /\ IF likeCalls[k].failed
       THEN /\ likeCalls' = [likeCalls EXCEPT ![k] = NoCall]
            /\ error' = IF k = "here" /\ mounted THEN "lookup failed" ELSE error
            /\ isLiking' = IF k = "here" /\ mounted THEN FALSE ELSE isLiking
       ELSE /\ likeCalls' = [likeCalls EXCEPT ![k].phase = "write",
                 ![k].write = ChooseWrite(likeCalls[k].existing, likeCalls[k].isLike)]
            /\ UNCHANGED <<error, isLiking>>
    /\ Step("LikeDecide", NoPayload)
    /\ UNCHANGED <<backendVars, stream, routeVars, newsItem, loading, reactionVars, commentVars,
                   viewCount, formVars, fetches, submit, incrementVars, channels, otherPages,
                   budget>>

\* the row ids the database can give a new likes row of (a, u)
FreeLikeIds(a, u) ==
    SelectSeq(LikeOrder, LAMBDA r : dbLikes[r] = "absent" /\ LikeHome[r].news_id = a
                                                         /\ LikeHome[r].user_id = u)

\* the backend runs the write: delete().eq('id', ...) and update().eq('id', ...)
\* touch the row if it still exists, insert() adds a row; or the write fails
LikeWrite(k) ==
    /\ likeCalls[k].phase = "write"
    /\ LET c == likeCalls[k]
           r == c.existing.id
       IN  \/ /\ likeCalls' = [likeCalls EXCEPT ![k].phase = "written", ![k].failed = TRUE]
              /\ UNCHANGED <<dbLikes, stream>>
           \/ /\ c.write = "delete"
              /\ likeCalls' = [likeCalls EXCEPT ![k].phase = "written"]
              /\ IF IsLive(r)
                 THEN /\ dbLikes' = [dbLikes EXCEPT ![r] = "gone"]
                      /\ Emit(Payload("likes", "DELETE", NoRow, LikeRecord(r, dbLikes[r])))
                 ELSE UNCHANGED <<dbLikes, stream>>
           \/ /\ c.write = "update"
              /\ likeCalls' = [likeCalls EXCEPT ![k].phase = "written"]
              /\ IF IsLive(r)
                 THEN /\ dbLikes' = [dbLikes EXCEPT ![r] = c.isLike]
                      /\ Emit(Payload("likes", "UPDATE", LikeRecord(r, c.isLike),
                                      LikeRecord(r, dbLikes[r])))
                 ELSE UNCHANGED <<dbLikes, stream>>
           \/ /\ c.write = "insert"
              /\ FreeLikeIds(c.id, c.userId) # <<>>
              /\ likeCalls' = [likeCalls EXCEPT ![k].phase = "written"]
              /\ LET n == FreeLikeIds(c.id, c.userId)[1]
                 IN  /\ dbLikes' = [dbLikes EXCEPT ![n] = c.isLike]
                     /\ Emit(Payload("likes", "INSERT", LikeRecord(n, c.isLike), NoRow))
    /\ Step("LikeWrite", NoPayload)
    /\ UNCHANGED <<dbComments, dbViews, routeVars, localVars, fetches, submit, incrementVars,
                   channels, isLiking, otherPages, budget>>

\* handleLikeAction after the write
LikeResolve(k) ==
    /\ likeCalls[k].phase = "written"
    /\ likeCalls' = [likeCalls EXCEPT ![k] = NoCall]
    /\ IF k = "here" /\ mounted
       THEN /\ userReaction' = ReactionAfterWrite(userReaction, likeCalls[k].write,
                                                  likeCalls[k].isLike, likeCalls[k].failed)
            /\ error' = IF likeCalls[k].failed THEN "write failed" ELSE error
            /\ isLiking' = FALSE
       ELSE UNCHANGED <<userReaction, error, isLiking>>
    /\ Step("LikeResolve", NoPayload)
    /\ UNCHANGED <<backendVars, stream, routeVars, newsItem, loading, likesCount, dislikesCount,
                   commentVars, viewCount, formVars, fetches, submit, incrementVars, channels,
                   otherPages, budget>>

ReactStep ==
    \/ \E k \in Instances, isLike \in WrittenIsLike : LikeStart(k, isLike)
    \/ \E k \in Instances : LikeLookup(k)
    \/ \E k \in Instances : LikeDecide(k)
    \/ \E k \in Instances : LikeWrite(k)
    \/ \E k \in Instances : LikeResolve(k)

(***************************************************************************)
(* The older detail page (src/pages/NewsDetailPage.tsx), whose view         *)
(* increment is an upsert of the locally held count plus one.  Each reader  *)
(* opens article A once; a reader keeps its own viewCount and receives the  *)
(* views events committed while it is subscribed.                           *)
(***************************************************************************)
OldReaders == {"v1", "v2", "v3"}
NoReader == [phase |-> "idle", viewCount |-> 0, next |-> 0, res |-> Pending, inbox |-> <<>>]

OtherReaderVars ==
    <<dbLikes, dbComments, stream, routeVars, localVars, fetches, submit, incrementVars,
      channels, likeVars, feed, edge, budget>>

\* the page is mounted: useState(0), fetchDetails is called, the channel is subscribed
OldOpen(v) ==
    /\ viewers[v].phase = "idle"
    /\ viewers' = [viewers EXCEPT ![v].phase = "loading"]
    /\ Step("OldOpen", NoPayload)
    /\ UNCHANGED <<dbViews, OtherReaderVars>>

OldFetchAnswer(v) ==
    /\ viewers[v].phase = "loading" /\ viewers[v].res = Pending
    /\ \E res \in {Failed, [kind |-> "ok", views |-> ViewsOf("A")]} :
           viewers' = [viewers EXCEPT ![v].res = res]
    /\ Step("OldFetchAnswer", NoPayload)
    /\ UNCHANGED <<dbViews, OtherReaderVars>>

\* const nextCount = viewCount + 1
NextCount(held) == held + 1

\* fetchDetails after its await, then the effect that runs once loading is false:
\* nextCount is computed from the viewCount of that render and the upsert is sent
OldFetchResolve(v) ==
    /\ viewers[v].phase = "loading" /\ viewers[v].res # Pending
    /\ LET shown == IF viewers[v].res.kind = "ok"
                    THEN coerceViewCount(viewers[v].res.views)
                    ELSE viewers[v].viewCount
       IN  viewers' = [viewers EXCEPT ![v].phase = "posting", ![v].viewCount = shown,
                                      ![v].next = NextCount(shown), ![v].res = Pending]
    /\ Step("OldFetchResolve", NoPayload)
    /\ UNCHANGED <<dbViews, OtherReaderVars>>

\* the backend runs upsert({ news_id, count: nextCount }, { onConflict: 'news_id' }):
\* the row's count becomes nextCount and every subscribed reader is sent the event
OldUpsertCommit(v) ==
    /\ viewers[v].phase = "posting" /\ viewers[v].res = Pending
    /\ \/ /\ viewers' = [viewers EXCEPT ![v].res = Failed]
          /\ UNCHANGED dbViews
       \/ LET n == viewers[v].next
              ev == IF dbViews["A"] = NullCount
                    THEN Payload("views", "INSERT", ViewRecord("A", n), NoRow)
                    ELSE Payload("views", "UPDATE", ViewRecord("A", n),
                                 ViewRecord("A", dbViews["A"]))
          IN  /\ dbViews' = [dbViews EXCEPT !["A"] = n]
              /\ viewers' = [w \in OldReaders |->
                     [viewers[w] EXCEPT
                         !.inbox = IF viewers[w].phase = "idle" THEN @ ELSE Append(@, ev),
                         !.res = IF w = v THEN Counted(n) ELSE @]]
    /\ Step("OldUpsertCommit", NoPayload)
    /\ UNCHANGED OtherReaderVars

\* incrementView after its await: error -> return; setViewCount(data.count ?? nextCount)
OldUpsertResolve(v) ==
    /\ viewers[v].phase = "posting" /\ viewers[v].res # Pending
    /\ viewers' = [viewers EXCEPT ![v].phase = "done", ![v].res = Pending,
                       ![v].viewCount = IF viewers[v].res.kind = "error" THEN @
                                        ELSE IF viewers[v].res.views # NullCount
                                        THEN viewers[v].res.views
                                        ELSE viewers[v].next]
    /\ Step("OldUpsertResolve", NoPayload)
    /\ UNCHANGED <<dbViews, OtherReaderVars>>

\* handleViewChange of the older page, the same function as the newer one
OldDeliverView(v) ==
    /\ viewers[v].inbox # <<>>
    /\ viewers' = [viewers EXCEPT
                       ![v].inbox = Tail(@),
                       ![v].viewCount = handleViewChange(@, Head(viewers[v].inbox), "A")]
    /\ Step("OldDeliverView", Head(viewers[v].inbox))
    /\ UNCHANGED <<dbViews, OtherReaderVars>>

OldStep ==
    \/ \E v \in OldReaders : OldOpen(v)
    \/ \E v \in OldReaders : OldFetchAnswer(v)
    \/ \E v \in OldReaders : OldFetchResolve(v)
    \/ \E v \in OldReaders : OldUpsertCommit(v)
    \/ \E v \in OldReaders : OldUpsertResolve(v)
    \/ \E v \in OldReaders : OldDeliverView(v)

(***************************************************************************)
(* The feed page (src/pages/NewsPage.tsx).  The news table is a fixed list *)
(* ordered by created_at, newest first; article k of that order is the     *)
(* number k.  fetchNews is a callback that closes over the isLoading,      *)
(* hasMore and items.length of the render that created it; feed.seen holds *)
(* those values for the callback the effects hold, i.e. the one of the     *)
(* render committed last.                                                  *)
(***************************************************************************)
BATCH_SIZE == 3
MaxNews == 4
MaxFeedInputs == 2

Closure(isLoading, hasMore, length) ==
    [isLoading |-> isLoading, hasMore |-> hasMore, length |-> length]

NoFeed ==
    [mounted |-> FALSE, items |-> <<>>, isLoading |-> FALSE, hasMore |-> TRUE,
     error |-> Null, seen |-> Closure(FALSE, TRUE, 0), reqs |-> <<>>]

\* .range(from, to) over the ordered table; from and to are 0-based and inclusive.
Range(from, to) ==
    [k \in 1..(Max(0, (IF to + 1 < MaxNews THEN to + 1 ELSE MaxNews) - from)) |-> from + k]

Returns(c) == c.isLoading \/ ~c.hasMore

\* fetchNews up to its await, called on the callback with closure c.
fetchNews(f, c) ==
    IF Returns(c)
    THEN f
    ELSE [f EXCEPT !.isLoading = TRUE, !.error = Null,
                   !.reqs = Append(@, [from |-> c.length, to |-> c.length + BATCH_SIZE - 1,
                                       res |-> Pending])]

\* The first render and its effects: the [fetchNews] effect calls fetchNews, the
\* observer is created around the same callback.
FeedMount ==
    /\ ~feed.mounted
    /\ feed' = fetchNews([NoFeed EXCEPT !.mounted = TRUE], NoFeed.seen)
    /\ Step("FeedMount", NoPayload)
    /\ UNCHANGED <<backendVars, stream, routeVars, localVars, fetches, submit, incrementVars,
                   channels, likeVars, viewers, edge, budget>>

\* A render after isLoading, hasMore or items.length changed: fetchNews is a new
\* callback, so the [fetchNews] effect runs again and calls it, and the observer is
\* recreated around it.
FeedRender ==
    /\ feed.mounted
    /\ feed.seen # Closure(feed.isLoading, feed.hasMore, Len(feed.items))
    /\ LET c == Closure(feed.isLoading, feed.hasMore, Len(feed.items))
       IN  feed' = fetchNews([feed EXCEPT !.seen = c], c)
    /\ Step("FeedRender", NoPayload)
    /\ UNCHANGED <<backendVars, stream, routeVars, localVars, fetches, submit, incrementVars,
                   channels, likeVars, viewers, edge, budget>>

\* The observer reports the loader sentinel intersecting: it calls the callback it
\* was created around.
FeedIntersect ==
    /\ feed.mounted
    /\ budget > 0
    /\ budget' = budget - 1
    /\ feed' = fetchNews(feed, feed.seen)
    /\ Step("FeedIntersect", NoPayload)
    /\ UNCHANGED <<backendVars, stream, routeVars, localVars, fetches, submit, incrementVars,
                   channels, likeVars, viewers, edge>>

Batch(rows) == [kind |-> "ok", data |-> rows]

FeedAnswer(i) ==
    /\ i \in DOMAIN feed.reqs /\ feed.reqs[i].res = Pending
    /\ \E res \in {Failed, Batch(Range(feed.reqs[i].from, feed.reqs[i].to))} :
           feed' = [feed EXCEPT !.reqs[i].res = res]
    /\ Step("FeedAnswer", NoPayload)
    /\ UNCHANGED <<backendVars, stream, routeVars, localVars, fetches, submit, incrementVars,
                   channels, likeVars, viewers, edge, budget>>

\* fetchNews after its await.
FeedResolve(i) ==
    /\ i \in DOMAIN feed.reqs /\ feed.reqs[i].res # Pending
    /\ LET res == feed.reqs[i].res
           f == [feed EXCEPT !.reqs = Remove(feed.reqs, i), !.isLoading = FALSE]
       IN  /\ feed' = IF res.kind = "error" THEN [f EXCEPT !.error = "failed"]
                      ELSE IF Len(res.data) = 0 THEN [f EXCEPT !.hasMore = FALSE]
                      ELSE [f EXCEPT !.items = feed.items \o res.data,
                                     !.hasMore = (Len(res.data) = BATCH_SIZE)]
           /\ StepWith("FeedResolve", NoPayload, <<0, 0>>, res)
    /\ UNCHANGED <<backendVars, stream, routeVars, localVars, fetches, submit, incrementVars,
                   channels, likeVars, viewers, edge, budget>>

FeedStep ==
    \/ FeedMount
    \/ FeedRender
    \/ FeedIntersect
    \/ \E i \in DOMAIN feed.reqs : FeedAnswer(i)
    \/ \E i \in DOMAIN feed.reqs : FeedResolve(i)

(***************************************************************************)
(* The increment_view function as an HTTP handler                          *)
(* (supabase/functions/increment_view/index.ts).  A request is a method    *)
(* and a body; a body is text that does not parse, or the JSON value it    *)
(* parses to: null, a value without properties of its own (a number, a     *)
(* string, an array), or an object, whose newsId is absent, a number or a  *)
(* string.                                                                 *)
(***************************************************************************)
Methods == {"OPTIONS", "POST", "GET", "PUT"}
Strings == {"A", "B", " A ", "  ", ""}
trim == [s \in Strings |-> IF s = " A " THEN "A" ELSE IF s = "  " THEN "" ELSE s]

Absent == [t |-> "absent", s |-> ""]
Bodies ==
    {[kind |-> k, newsId |-> Absent] : k \in {"unparsable", "null", "primitive"}}
        \cup {[kind |-> "object", newsId |-> v] :
                  v \in {Absent, [t |-> "number", s |-> ""]}
                        \cup {[t |-> "string", s |-> s] : s \in Strings}}
Requests == [method : Methods, body : Bodies]

NoExchange == [served |-> FALSE, req |-> [method |-> "GET", body |-> [kind |-> "unparsable",
               newsId |-> Absent]], status |-> 0, newsId |-> "", dbFailed |-> FALSE]

newsIdOf(body) == IF body.newsId.t = "string" THEN trim[body.newsId.s] ELSE ""

\* The response to a request that does not reach the database, 0 if it reaches it.
\* Reading a property of null throws outside every try block; the server answers
\* an exception of the handler with 500.
Early(req) ==
    IF req.method = "OPTIONS" THEN 200
    ELSE IF req.method # "POST" THEN 405
    ELSE IF req.body.kind = "unparsable" THEN 400
    ELSE IF req.body.kind = "null" THEN 500
    ELSE IF newsIdOf(req.body) = "" THEN 400
    ELSE 0

Serve(req) ==
    /\ budget > 0
    /\ budget' = budget - 1
    /\ IF Early(req) # 0
       THEN /\ edge' = [served |-> TRUE, req |-> req, status |-> Early(req), newsId |-> "",
                        dbFailed |-> FALSE]
            /\ UNCHANGED <<dbViews, stream>>
       ELSE LET a == newsIdOf(req.body)
                n == UpsertIncrement(dbViews[a])
            IN  \/ /\ edge' = [served |-> TRUE, req |-> req, status |-> 500, newsId |-> a,
                               dbFailed |-> TRUE]
                   /\ UNCHANGED <<dbViews, stream>>
                \/ /\ dbViews' = [dbViews EXCEPT ![a] = n]
                   /\ Emit(IF dbViews[a] = NullCount
                           THEN Payload("views", "INSERT", ViewRecord(a, n), NoRow)
                           ELSE Payload("views", "UPDATE", ViewRecord(a, n),
                                        ViewRecord(a, dbViews[a])))
                   /\ edge' = [served |-> TRUE, req |-> req, status |-> 200, newsId |-> a,
                               dbFailed |-> FALSE]
    /\ StepWith("Serve", NoPayload, <<0, 0>>,
                IF edge'.status = 200 /\ req.method = "POST"
                THEN Counted(dbViews'[edge'.newsId]) ELSE [kind |-> "none"])
    /\ UNCHANGED <<dbLikes, dbComments, routeVars, localVars, fetches, submit, incrementVars,
                   channels, likeVars, viewers, feed>>

InitPage(n) ==
    /\ dbLikes = [r \in LikeIds |-> "absent"]
    /\ dbComments = [c \in CommentIds |-> AbsentC]
    /\ dbViews = [a \in Articles |-> NullCount]
    /\ stream = <<>>
    /\ id = Null /\ userId = Null /\ mounted = FALSE
    /\ newsItem = Null
    /\ comments = <<>>
    /\ likesCount = 0 /\ dislikesCount = 0 /\ viewCount = 0
    /\ userReaction = Null
    /\ loading = TRUE
    /\ error = Null /\ commentError = Null
    /\ isSubmittingComment = FALSE /\ isAwaitingCommentAck = FALSE
    /\ pendingCommentId = Null
    /\ fetches = <<>>
    /\ submit = NoSubmit
    /\ isLiking = FALSE
    /\ hasIncrementedView = FALSE /\ incs = <<>> /\ issued = 0
    /\ channels = <<>>
    /\ likeCalls = [k \in Instances |-> NoCall]
    /\ viewers = [v \in OldReaders |-> NoReader]
    /\ feed = NoFeed
    /\ edge = NoExchange
    /\ budget = n
    /\ last = [op |-> "Init", ev |-> NoPayload, pre |-> <<0, 0>>, res |-> [kind |-> "none"]]

Init == InitPage(MaxInputs)

RouteStep ==
    \/ \E u \in Viewers : Mount("A", u)
    \/ \E b \in RouteIds : Navigate(b)
    \/ Unmount
    \/ \E i \in DOMAIN fetches : FetchAnswer(i)
    \/ \E i \in DOMAIN fetches : FetchResolve(i)

PageStep == RouteStep \/ \E u \in Viewers : SetUser(u)

LikeStep ==
    \/ \E r \in FirstLikeIds, p \in WrittenIsLike : InsertLike(r, p)
    \/ \E r \in FirstLikeIds, p \in WrittenIsLike : UpdateLike(r, p)
    \/ \E r \in FirstLikeIds : DeleteLike(r)
    \/ Truncate("likes")
    \/ \E i \in DOMAIN stream : DeliverLike(i)

CommentStep ==
    \/ \E c \in CommentIds, ts \in Timestamps : InsertComment(c, "hi", ts)
    \/ \E c \in CommentIds, ts \in Timestamps : UpdateComment(c, "yo", ts)
    \/ \E c \in CommentIds : DeleteComment(c)
    \/ Truncate("comments")
    \/ \E i \in DOMAIN stream : DeliverComment(i)
    \/ SubmitStart
    \/ SubmitCommit
    \/ SubmitResolve

ViewStep ==
    \/ \E a \in Articles : UpsertView(a)
    \/ Truncate("views")
    \/ \E i \in DOMAIN stream : DeliverView(i)

IncrementStep ==
    \/ \E i \in DOMAIN incs : IncrementCommit(i)
    \/ \E i \in DOMAIN incs : IncrementResolve(i)

Next ==
    \/ PageStep
    \/ LikeStep
    \/ CommentStep
    \/ ViewStep
    \/ IncrementStep
    \/ \E a \in Articles : InvokeIncrement(a)
    \/ \E i \in DOMAIN incs : IncrementCommitUncounted(i)
    \/ ReactStep
    \/ OldStep

Spec == Init /\ [][Next]_vars

\* the page with the likes relation alone
NextLikes == PageStep \/ LikeStep
SpecLikes == Init /\ [][NextLikes]_vars

\* the page with the comments relation alone, for a guest: no comment handler reads
\* the viewer
NextComments ==
    \/ Mount("A", Null)
    \/ \E b \in RouteIds : Navigate(b)
    \/ Unmount
    \/ \E i \in DOMAIN fetches : FetchAnswer(i)
    \/ \E i \in DOMAIN fetches : FetchResolve(i)
    \/ CommentStep
SpecComments == Init /\ [][NextComments]_vars

\* the page with the views relation alone
NextViews == PageStep \/ ViewStep
SpecViews == Init /\ [][NextViews]_vars

\* the three stream handlers under route changes, for one viewer and no comment form
NextStream ==
    \/ \E u \in Viewers : Mount("A", u)
    \/ \E b \in RouteIds : Navigate(b)
    \/ \E i \in DOMAIN fetches : FetchAnswer(i)
    \/ \E i \in DOMAIN fetches : FetchResolve(i)
    \/ LikeStep
    \/ \E c \in CommentIds, ts \in {"T0", "T1"} : InsertComment(c, "hi", ts)
    \/ \E c \in CommentIds, ts \in {"T0", "T1"} : UpdateComment(c, "yo", ts)
    \/ \E c \in CommentIds : DeleteComment(c)
    \/ Truncate("comments")
    \/ \E i \in DOMAIN stream : DeliverComment(i)
    \/ ViewStep
SpecStream == Init /\ [][NextStream]_vars

\* the reaction fold alone: the page shows article A, whose snapshot held no rows, and
\* folds the INSERT, UPDATE and DELETE events of the likes relation
InitLoaded(n) ==
    /\ dbLikes = [r \in LikeIds |-> "absent"]
    /\ dbComments = [c \in CommentIds |-> AbsentC]
    /\ dbViews = [a \in Articles |-> NullCount]
    /\ stream = <<>>
    /\ id = "A" /\ userId \in Viewers /\ mounted = TRUE
    /\ newsItem = "A"
    /\ comments = <<>>
    /\ likesCount = 0 /\ dislikesCount = 0 /\ viewCount = 0
    /\ userReaction = Null
    /\ loading = FALSE
    /\ error = Null /\ commentError = Null
    /\ isSubmittingComment = FALSE /\ isAwaitingCommentAck = FALSE
    /\ pendingCommentId = Null
    /\ fetches = <<>>
    /\ submit = NoSubmit
    /\ isLiking = FALSE
    /\ hasIncrementedView = TRUE /\ incs = <<>> /\ issued = 1
    /\ channels = <<Channel("A", userId, Null)>>
    /\ likeCalls = [k \in Instances |-> NoCall]
    /\ viewers = [v \in OldReaders |-> NoReader]
    /\ feed = NoFeed
    /\ edge = NoExchange
    /\ budget = n
    /\ last = [op |-> "Init", ev |-> NoPayload, pre |-> <<0, 0>>, res |-> [kind |-> "none"]]

InitFold == InitLoaded(MaxFoldInputs)

NextFold ==
    \/ \E r \in FirstLikeIds, p \in WrittenIsLike : InsertLike(r, p)
    \/ \E r \in FirstLikeIds, p \in WrittenIsLike : UpdateLike(r, p)
    \/ \E r \in FirstLikeIds : DeleteLike(r)
    \/ \E i \in DOMAIN stream : DeliverLike(i)
SpecFold == InitFold /\ [][NextFold]_vars

\* the subscription effect under route and viewer changes, unmounting and the
\* comment form, whose pendingCommentId the comment handler closes over
NextChannel ==
    \/ PageStep
    \/ SubmitStart
    \/ SubmitCommit
    \/ SubmitResolve
    \/ \E i \in DOMAIN stream : DeliverComment(i)
SpecChannel == Init /\ [][NextChannel]_vars

\* the view increment: activations of the page opened by a guest, snapshot
\* re-fetches when the viewer signs in or out, the requests to increment_view and
\* the views events they cause
NextIncrement ==
    \/ Mount("A", Null)
    \/ \E b \in RouteIds : Navigate(b)
    \/ \E u \in Viewers : SetUser(u)
    \/ \E i \in DOMAIN fetches : FetchAnswer(i)
    \/ \E i \in DOMAIN fetches : FetchResolve(i)
    \/ IncrementStep
    \/ \E i \in DOMAIN incs : IncrementCommitUncounted(i)
    \/ \E i \in DOMAIN stream : DeliverView(i)
InitIncrement == InitPage(MaxRouteChanges)
SpecIncrement == InitIncrement /\ [][NextIncrement]_vars

\* the increment_view function alone, called by several readers at once
InitCounter == InitPage(MaxInvocations)
NextCounter ==
    \/ \E a \in Articles : InvokeIncrement(a)
    \/ IncrementStep
SpecCounter == InitCounter /\ [][NextCounter]_vars

\* the reaction buttons and the comment form of a loaded page, with the events of
\* their writes
NextReact ==
    \/ ReactStep
    \/ \E i \in DOMAIN stream : DeliverLike(i)
    \/ SubmitStart
    \/ SubmitCommit
    \/ SubmitResolve
    \/ \E i \in DOMAIN stream : DeliverComment(i)
InitReact == InitLoaded(MaxInputs)
SpecReact == InitReact /\ [][NextReact]_vars

\* concurrent readers of the older page
SpecUpsert == Init /\ [][OldStep]_vars

\* the comment form of a loaded page: submissions, their responses and the stream
\* echo of every inserted comment, in either order
InitForm == InitLoaded(MaxInputs)
NextForm ==
    \/ SubmitStart
    \/ SubmitCommit
    \/ SubmitResolve
    \/ \E c \in CommentIds, ts \in Timestamps : InsertComment(c, "hi", ts)
    \/ \E i \in DOMAIN stream : DeliverComment(i)
SpecForm == InitForm /\ [][NextForm]_vars

\* the comment fold alone: a loaded page and the INSERT and UPDATE events of the
\* comments relation, delivered in any order across rows
InitOrder == InitLoaded(MaxOrderInputs)
NextOrder ==
    \/ \E c \in CommentIds, ts \in Timestamps : InsertComment(c, "hi", ts)
    \/ \E c \in CommentIds, ts \in Timestamps : UpdateComment(c, "yo", ts)
    \/ \E i \in DOMAIN stream : DeliverComment(i)
SpecOrder == InitOrder /\ [][NextOrder]_vars

\* The loaded page and reaction rows of every stored polarity, inserted one by one.
InitTally == InitLoaded(MaxOrderInputs)
NextTally ==
    \/ \E r \in FirstLikeIds, p \in StoredIsLike : InsertLike(r, p)
    \/ \E i \in DOMAIN stream : DeliverLike(i)
SpecTally == InitTally /\ [][NextTally]_vars

\* The feed page alone.
InitFeed == InitPage(MaxFeedInputs)
SpecFeed == InitFeed /\ [][FeedStep]_vars

\* The increment_view function alone, serving one request after another.
InitServe == InitPage(MaxInvocations)
NextServe == \E req \in Requests : Serve(req)
SpecServe == InitServe /\ [][NextServe]_vars

\* The loaded page with the views relation only: counts, removals and their events.
InitViewEvents == InitLoaded(MaxFoldInputs)
NextViewEvents ==
    \/ \E a \in Articles : UpsertView(a)
    \/ \E a \in Articles : DeleteView(a)
    \/ Truncate("views")
    \/ \E i \in DOMAIN stream : DeliverView(i)
SpecViewEvents == InitViewEvents /\ [][NextViewEvents]_vars

(***************************************************************************)
(* The properties.                                                         *)
(***************************************************************************)
LiveCount(a, p) ==
    Cardinality({r \in LikeIds : LikeHome[r].news_id = a /\ dbLikes[r] = p})

Delivered(op) == last.op = op /\ IsActiveArticle(TargetId(last.ev), id)

\* C1: from zero counters and no rows, once every INSERT, UPDATE and DELETE event of
\* the likes relation has been folded (each once, each row's events in commit order),
\* likesCount is the number of live like rows of the article and dislikesCount the
\* number of its live dislike rows.
C1_FoldCountsLiveRows ==
    stream = <<>> =>
        /\ likesCount = LiveCount(id, "true")
        /\ dislikesCount = LiveCount(id, "false")

C1_Witness ==
    /\ stream = <<>>
    /\ Delivered("DeliverLike") /\ last.ev.eventType = "DELETE"
    /\ dbLikes["r3"] # "absent"
    /\ likesCount + dislikesCount = 1
    /\ \E r \in LikeIds : dbLikes[r] = "gone"

DeliverOps == {"DeliverLike", "DeliverComment", "DeliverView"}

\* C2: a change event of the likes, comments or views relation that carries the
\* identifier of an article other than the viewed one leaves the page's local state,
\* and the set of snapshot fetches in flight, as they were.
C2_ForeignEventIgnored ==
    [][(last'.op \in DeliverOps /\ TargetId(last'.ev) \notin {Null, id})
           => UNCHANGED <<localVars, fetches>>]_vars

C2_Witness ==
    /\ last.op \in DeliverOps
    /\ TargetId(last.ev) \notin {Null, id}
    /\ newsItem = id
    /\ likesCount + dislikesCount + Len(comments) + viewCount > 0

\* C3: handing handleLikeChange a TRUNCATE event of the likes relation sets both
\* counters to 0 and userReaction to null and starts a snapshot fetch.
C3_TruncateResets ==
    [][(last'.op = "DeliverLike" /\ last'.ev.eventType = "TRUNCATE") =>
           /\ likesCount' = 0 /\ dislikesCount' = 0 /\ userReaction' = Null
           /\ Len(fetches') = Len(fetches) + 1]_vars

\* C4: a snapshot fetch that resolves when the viewed article is no longer the one it
\* was started for, or when the page is no longer rendered, changes no local state.
C4_StaleFetchIgnored ==
    [][\A i \in DOMAIN fetches :
           (FetchResolve(i) /\ (~mounted \/ fetches[i].id # id))
               => UNCHANGED localVars]_vars

\* C5: once the snapshot fetch for the viewed article has completed (with rows, with
\* not-found or with an error) and no other fetch is in flight, the counters, the
\* reaction, the comments and the view count are not those loaded for another article.
C5_NoStaleArticleState ==
    (mounted /\ ~loading /\ fetches = <<>>) => newsItem \in {Null, id}

\* C6: likesCount and dislikesCount are never negative.
C6_CountersNonNegative == likesCount >= 0 /\ dislikesCount >= 0

C6_Witness ==
    /\ Delivered("DeliverLike")
    /\ \/ /\ last.ev.eventType = "DELETE" /\ Truthy(last.ev.old.is_like)
       \/ /\ last.ev.eventType = "UPDATE" /\ Truthy(last.ev.old.is_like)
          /\ ~Truthy(last.ev.new.is_like)
    /\ last.pre[1] = 0
    /\ likesCount = 0

IsSortedByDate(list) ==
    \A i, j \in DOMAIN list :
        i < j => GetTime(list[i].created_at) <= GetTime(list[j].created_at)

\* C7: the comments list is sorted ascending by the instant of created_at in every
\* reachable state.
C7_CommentsSorted == IsSortedByDate(comments)

C7_Witness ==
    /\ Delivered("DeliverComment") /\ last.ev.eventType = "INSERT"
    /\ Len(comments) >= 2
    /\ comments[1] = last.ev.new
    /\ GetTime(comments[1].created_at) < GetTime(comments[2].created_at)

\* C8: handing handleCommentChange an INSERT event it has just folded gives the
\* comments list it already holds: the same entries in the same order.
C8_InsertIdempotent ==
    (Delivered("DeliverComment") /\ last.ev.eventType = "INSERT") =>
        handleCommentChange(CommentState(comments, pendingCommentId, isAwaitingCommentAck),
                            last.ev, id).comments = comments

C8_Witness ==
    /\ Delivered("DeliverComment") /\ last.ev.eventType = "INSERT"
    /\ Len(comments) >= 2
    /\ \E i \in DOMAIN comments :
           /\ comments[i].id # last.ev.new.id
           /\ GetTime(comments[i].created_at) = GetTime(last.ev.new.created_at)

\* C9: after an UPDATE event of the viewed article that turns a row from one
\* polarity to the other, the new polarity's counter is one more, the old polarity's
\* counter one less but not below 0, and userReaction is the new polarity when the
\* row belongs to the viewer.
C9_UpdateMovesOneCount ==
    (/\ Delivered("DeliverLike") /\ last.ev.eventType = "UPDATE"
     /\ last.ev.old.is_like \in WrittenIsLike /\ last.ev.new.is_like \in WrittenIsLike
     /\ last.ev.old.is_like # last.ev.new.is_like) =>
        /\ last.ev.new.is_like = "true" =>
               /\ likesCount = last.pre[1] + 1
               /\ dislikesCount = Max(last.pre[2] - 1, 0)
        /\ last.ev.new.is_like = "false" =>
               /\ dislikesCount = last.pre[2] + 1
               /\ likesCount = Max(last.pre[1] - 1, 0)
        /\ (userId # Null /\ last.ev.new.user_id = userId) =>
               userReaction = (IF last.ev.new.is_like = "true" THEN "like" ELSE "dislike")

C9_Witness ==
    /\ Delivered("DeliverLike") /\ last.ev.eventType = "UPDATE"
    /\ last.ev.new.id = "r1" /\ last.ev.old.is_like = "true" /\ last.ev.new.is_like = "false"
    /\ userId = "u1"
    /\ last.pre = <<1, 0>>
    /\ likesCount = 0 /\ dislikesCount = 1 /\ userReaction = "dislike"

CommentSet(list) == {list[i] : i \in DOMAIN list}

\* C10: when the snapshot of the viewed article has been applied, no fetch or comment
\* submission is in flight and every change event has been delivered, the local
\* counters, comments and view count are those of the backend's rows of the article.
C10_LocalMatchesBackend ==
    (/\ mounted /\ ~loading /\ error = Null /\ newsItem = id
     /\ fetches = <<>> /\ stream = <<>> /\ submit = NoSubmit) =>
        /\ likesCount = LiveCount(id, "true")
        /\ dislikesCount = LiveCount(id, "false")
        /\ CommentSet(comments) = CommentSet(CommentsOf(id))
        /\ Len(comments) = Len(CommentsOf(id))
        /\ viewCount = coerceViewCount(ViewsOf(id))

\* C11: a rendered page holds exactly one open channel, subscribed for the viewed
\* article; two channels are never open together, and none is open before the page
\* is mounted or after it is unmounted.
C11_OneSubscription ==
    /\ Len(channels) <= 1
    /\ mounted => (Len(channels) = 1 /\ channels[1].id = id)
    /\ ~mounted => channels = <<>>

C11_Witness ==
    /\ last.op = "Unmount"
    /\ channels = <<>>
    /\ id = "B"
    /\ pendingCommentId # Null

\* C12: within one activation of the page on an article (its mount, or a switch to
\* another article id) at most one view-increment request is issued, whatever
\* re-fetches, stream events and view-count changes happen during the activation.
C12_OneIncrementPerActivation == issued <= 1

C12_Witness ==
    /\ last.op = "FetchResolve"
    /\ mounted /\ ~loading /\ newsItem = id
    /\ userId # Null
    /\ hasIncrementedView /\ issued = 1
    /\ incs = <<>>
    /\ viewCount >= 1

\* C13: when an increment request completes on a rendered page, viewCount is the
\* count of the response if it carries one, its previous value plus one if the
\* request succeeded without a count, and its previous value if the request failed.
C13_IncrementApplied ==
    (last.op = "IncrementResolve" /\ mounted) =>
        /\ last.res.kind = "error" => viewCount = last.pre[1]
        /\ (last.res.kind = "ok" /\ last.res.views # NullCount) => viewCount = last.res.views
        /\ (last.res.kind = "ok" /\ last.res.views = NullCount) => viewCount = last.pre[1] + 1

C13_Witness ==
    /\ last.op = "IncrementResolve" /\ mounted
    /\ last.res = Uncounted
    /\ last.pre[1] >= 1
    /\ viewCount = last.pre[1] + 1

AnsweredCounts(a) ==
    {i \in DOMAIN incs : incs[i].id = a /\ incs[i].res.kind = "ok"
                                        /\ incs[i].res.views # NullCount}

\* C16: every committed increment_view request raises the stored count of its
\* article by exactly one over the value stored when it commits (a first view
\* stores 1) and returns that new count, so concurrent requests for one article
\* never return the same count and none is lost.
C16_NoLostIncrement ==
    [][/\ \A a \in Articles :
              dbViews'[a] # dbViews[a] =>
                  /\ dbViews'[a] = Max(dbViews[a], 0) + 1
                  /\ last'.res.kind = "ok" =>
                         (last'.res.views = NullCount \/ last'.res.views = dbViews'[a])
       /\ \A a \in Articles : \A i, j \in AnsweredCounts(a)' :
              i # j => incs'[i].res.views # incs'[j].res.views]_vars

C16_Witness ==
    /\ last.op = "IncrementCommit"
    /\ Cardinality(AnsweredCounts("A")) = MaxInvocations
    /\ dbViews["A"] = MaxInvocations

LikeOps == {"LikeStart", "LikeLookup", "LikeDecide", "LikeWrite", "LikeResolve"}
SubmitOps == {"SubmitStart", "SubmitCommit", "SubmitResolve"}

\* C14: when the lookup or the write of handleLikeAction, or the insert of
\* handleCommentSubmit, returns an error, the handler leaves likesCount,
\* dislikesCount, userReaction and comments as they were and sets an error message;
\* these handlers change userReaction and comments only in the step that follows a
\* successful write.
C14_NoOptimisticChange ==
    [][/\ (/\ mounted /\ last'.op \in {"LikeDecide", "LikeResolve"}
           /\ likeCalls["here"].phase \in {"looked", "written"}
           /\ likeCalls'["here"].phase = "idle"
           /\ likeCalls["here"].failed) =>
              /\ UNCHANGED <<likesCount, dislikesCount, userReaction, comments>>
              /\ error' # Null
       /\ (mounted /\ last'.op = "SubmitResolve" /\ submit.res.kind = "error") =>
              /\ UNCHANGED <<likesCount, dislikesCount, userReaction, comments>>
              /\ commentError' # Null
       /\ (last'.op \in LikeOps /\ userReaction' # userReaction) =>
              /\ last'.op = "LikeResolve"
              /\ likeCalls["here"].phase = "written" /\ ~likeCalls["here"].failed
       /\ (last'.op \in SubmitOps /\ comments' # comments) =>
              /\ last'.op = "SubmitResolve"
              /\ submit.res.kind = "ok"]_vars

C14_Witness ==
    /\ last.op = "LikeResolve"
    /\ likeCalls["here"].phase = "idle" /\ ~isLiking
    /\ error = "write failed"
    /\ userReaction = "like"

\* C15: the likes relation never holds two live rows of one (article, user) pair,
\* whatever like and dislike actions the viewer's page instances run.
C15_OneReactionPerPair ==
    \A r, q \in LikeIds :
        (IsLive(r) /\ IsLive(q) /\ LikeHome[r] = LikeHome[q]) => r = q

\* C17: with the upsert of the locally held count plus one, the stored view count of
\* an article never decreases.
C17_StoredCountMonotone ==
    [][\A a \in Articles : dbViews'[a] >= dbViews[a]]_vars

\* C18: once the response of a comment submission has been handled and the stream
\* has delivered every event, the INSERT echo of the comment included, the page no
\* longer waits for the echo: isAwaitingCommentAck is false, whichever of the
\* response and the echo came first.
C18_AckClearedAfterEcho ==
    (mounted /\ submit = NoSubmit /\ stream = <<>>) => ~isAwaitingCommentAck

\* C19: the comments list never holds two entries with one comment identifier, and
\* after an UPDATE event of the viewed article the list holds the event's new row.
C19_OneEntryPerId ==
    /\ \A i, j \in DOMAIN comments : comments[i].id = comments[j].id => i = j
    /\ (Delivered("DeliverComment") /\ last.ev.eventType = "UPDATE") =>
           \E i \in DOMAIN comments : comments[i] = last.ev.new

C19_Witness ==
    /\ Delivered("DeliverComment") /\ last.ev.eventType = "INSERT"
    /\ last.ev.new.id = last.res.id
    /\ submit = NoSubmit /\ ~isAwaitingCommentAck
    /\ Len(comments) >= 2
    /\ \E i \in DOMAIN comments : comments[i] = last.ev.new

RECURSIVE FoldComments(_, _, _)
FoldComments(list, evs, vid) ==
    IF evs = <<>> THEN list
    ELSE FoldComments(handleCommentChange(CommentState(list, Null, FALSE), Head(evs), vid).comments,
                      Tail(evs), vid)

Orders(n) == {f \in [1..n -> 1..n] : \A i, j \in 1..n : f[i] = f[j] => i = j}
Reordered(evs, f) == [i \in DOMAIN evs |-> evs[f[i]]]

\* the events in flight are comment INSERT and UPDATE events of pairwise distinct rows
DistinctRowEvents ==
    /\ stream # <<>>
    /\ \A i \in DOMAIN stream : stream[i].table = "comments" /\ stream[i].new # NoRow
    /\ \A i, j \in DOMAIN stream : stream[i].new.id = stream[j].new.id => i = j

DistinctInstants ==
    \A i, j \in DOMAIN stream :
        (/\ stream[i].new.news_id = id /\ stream[j].new.news_id = id
         /\ GetTime(stream[i].new.created_at) = GetTime(stream[j].new.created_at)) => i = j

\* C20: for comment INSERT and UPDATE events of pairwise distinct rows, the comments
\* list after all of them is the same sequence for every order of delivery, also
\* when two of the comments carry the same creation instant.
C20_OrderIndependentSequence ==
    DistinctRowEvents =>
        \A f \in Orders(Len(stream)) :
            FoldComments(comments, Reordered(stream, f), id) = FoldComments(comments, stream, id)

\* C20 as amended: the list after all of the events holds the same entries for every
\* order of delivery, and is the same sequence when the events' comments of the
\* viewed article carry pairwise distinct creation instants.
C20_OrderIndependentContent ==
    DistinctRowEvents =>
        \A f \in Orders(Len(stream)) :
            LET one == FoldComments(comments, Reordered(stream, f), id)
                other == FoldComments(comments, stream, id)
            IN  /\ CommentSet(one) = CommentSet(other)
                /\ Len(one) = Len(other)
                /\ DistinctInstants => one = other

C20_Witness ==
    /\ DistinctRowEvents /\ DistinctInstants
    /\ comments # <<>>
    /\ \E i, j \in DOMAIN stream :
           /\ stream[i].eventType = "UPDATE" /\ stream[j].eventType = "INSERT"
           /\ stream[i].new.news_id = id /\ stream[j].new.news_id = id
           /\ GetTime(stream[i].new.created_at) < GetTime(comments[1].created_at)

(***************************************************************************)
(* Reaction and view events, failed snapshots.                             *)
(***************************************************************************)
\* The row an event is about: the row after the change, or the deleted row.
RowOf(payload) == IF payload.new # NoRow THEN payload.new ELSE payload.old
RowEvents == {"INSERT", "UPDATE", "DELETE"}

\* C21: delivering a reaction INSERT, UPDATE or DELETE event for the viewed article
\* whose row belongs to another user, or while no viewer is signed in, leaves
\* userReaction as it was; a delivered event changes userReaction only if it is a
\* reaction event whose row belongs to the viewer.
C21_OnlyOwnRowsSetReaction ==
    [][/\ (/\ last'.op = "DeliverLike" /\ last'.ev.eventType \in RowEvents
           /\ RowOf(last'.ev).news_id = id
           /\ (userId = Null \/ RowOf(last'.ev).user_id # userId))
              => userReaction' = userReaction
       /\ (last'.op \in DeliverOps /\ userReaction' # userReaction)
              => /\ last'.op = "DeliverLike" /\ last'.ev.eventType \in RowEvents
                 /\ userId # Null /\ RowOf(last'.ev).user_id = userId]_vars

C21_Witness ==
    /\ Delivered("DeliverLike") /\ last.ev.eventType = "INSERT"
    /\ last.ev.new.news_id = id /\ userId = "u1"
    /\ last.ev.new.user_id = "u2" /\ last.ev.new.is_like = "false"
    /\ userReaction = "like"

\* C22: delivering a reaction UPDATE event whose row has the same polarity before
\* and after the change leaves likesCount, dislikesCount and userReaction as they
\* were.
C22_SamePolarityUpdateIgnored ==
    [][(/\ last'.op = "DeliverLike" /\ last'.ev.eventType = "UPDATE"
        /\ last'.ev.new # NoRow /\ last'.ev.old # NoRow
        /\ last'.ev.old.is_like = last'.ev.new.is_like)
           => UNCHANGED reactionVars]_vars

C22_Witness ==
    /\ Delivered("DeliverLike") /\ last.ev.eventType = "UPDATE"
    /\ last.ev.new.news_id = id
    /\ last.ev.old.is_like = last.ev.new.is_like
    /\ last.ev.new.user_id = userId
    /\ likesCount = last.pre[1] /\ dislikesCount = last.pre[2]

\* C23: delivering a view event for the viewed article whose row after the change
\* has a count sets viewCount to exactly that count, whatever viewCount was before,
\* a larger value included; delivering a view event without such a count leaves
\* viewCount as it was.
C23_ViewEventSetsCount ==
    [][last'.op = "DeliverView" =>
          IF /\ last'.ev.new # NoRow /\ last'.ev.new.news_id = id
             /\ last'.ev.new.count # NullCount
          THEN viewCount' = last'.ev.new.count
          ELSE viewCount' = viewCount]_vars

C23_Witness ==
    /\ Delivered("DeliverView") /\ last.ev.new # NoRow
    /\ viewCount = last.ev.new.count
    /\ last.pre[1] > viewCount

\* What the page renders (the guards in front of the article markup).
RenderedAlways(vid, item, isLoading, err) == "content"
Rendered(vid, item, isLoading, err) ==
    IF vid = Null THEN "invalid"
    ELSE IF isLoading /\ item = Null THEN "skeleton"
    ELSE IF err # Null /\ item = Null THEN "error"
    ELSE IF item = Null THEN "nothing"
    ELSE "content"

\* C24: when a snapshot fetch of the mounted page ends in a transport error or finds
\* no article, error is set, loading becomes false, and newsItem, comments,
\* likesCount, dislikesCount, userReaction and viewCount keep their values; the
\* article content is rendered afterwards only if newsItem holds an earlier snapshot.
C24_FailedFetchKeepsSnapshot ==
    [][\A i \in DOMAIN fetches :
           (/\ FetchResolve(i) /\ mounted
            /\ fetches[i].res.kind \in {"error", "notfound"})
               => /\ error' # Null /\ ~loading'
                  /\ UNCHANGED <<newsItem, comments, reactionVars, viewCount>>
                  /\ Rendered(id', newsItem', loading', error') = "content"
                         <=> newsItem # Null]_vars

C24_Witness ==
    /\ last.op = "FetchResolve" /\ mounted
    /\ error # Null /\ ~loading
    /\ newsItem = id /\ likesCount > 0
    /\ Rendered(id, newsItem, loading, error) = "content"

(***************************************************************************)
(* The view report and the subscription over the life of a page.           *)
(***************************************************************************)
\* C26: the page issues its increment request for an article only once a snapshot
\* fetch of that article has completed: at that moment the page is not loading and
\* no snapshot fetch of that article is in flight, so that no snapshot can arrive
\* after the count the increment returns.
C26_IncrementAfterSnapshot ==
    [][(Len(incs') > Len(incs) /\ incs'[Len(incs')].own)
          => /\ ~loading'
             /\ \A k \in DOMAIN fetches' : fetches'[k].id # incs'[Len(incs')].id]_vars

\* C27: while the page stays mounted on the same article its subscription is never
\* closed and reopened: no step that keeps id and mounted changes the open channel,
\* a comment submission and a change of the viewer included.
C27_SubscriptionKept ==
    [][(mounted /\ mounted' /\ id' = id) => channels' = channels]_vars

\* C28: the snapshot tally and the fold of INSERT events put every reaction row, a
\* row without polarity included, in the same counter: once the INSERT events of a
\* set of rows have been folded from zero, likesCount and dislikesCount are the
\* counts a snapshot of those rows gives.
C28_FoldMatchesSnapshot ==
    stream = <<>> =>
        /\ likesCount = CountLikes(LikesOf(id))
        /\ dislikesCount = CountDislikes(LikesOf(id))

(***************************************************************************)
(* The feed page.                                                          *)
(***************************************************************************)
\* C25: after the first batch, the feed page requests a batch only when the loader
\* sentinel is reported intersecting: a step that issues a request is the mount or
\* an intersection, never the render that follows a request completing or failing.
C25_BatchOnlyOnIntersection ==
    [][Len(feed'.reqs) > Len(feed.reqs) => last'.op \in {"FeedMount", "FeedIntersect"}]_vars

\* C29: on the feed page at most one batch request is in flight, the requests in
\* flight and the items received cover disjoint ranges (no article is in items
\* twice, no request starts below the end of items), and hasMore is false once a
\* batch shorter than BATCH_SIZE has been received.
C29_OneBatchInFlight ==
    /\ Len(feed.reqs) <= 1
    /\ \A i, j \in DOMAIN feed.items : i # j => feed.items[i] # feed.items[j]
    /\ \A k \in DOMAIN feed.reqs : feed.reqs[k].from >= Len(feed.items)
    /\ (/\ last.op = "FeedResolve" /\ last.res.kind = "ok"
        /\ Len(last.res.data) < BATCH_SIZE) => ~feed.hasMore

(***************************************************************************)
(* The increment_view function.                                            *)
(***************************************************************************)
\* C30: the function changes the views table only for a POST whose body parses as
\* JSON and names a non-blank string newsId; it answers OPTIONS with 200, any other
\* method than POST with 405, a POST whose body does not parse with 400, a POST
\* whose parsed body has no newsId, or one that is not a string or is blank, with
\* 400, each without touching the table; a failure of the database gives 500.
C30_OnlyValidPostsWrite ==
    [][last'.op = "Serve" =>
          LET req == edge'.req
              parsed == req.body.kind # "unparsable"
              named == req.body.newsId.t = "string" /\ req.body.newsId.s \notin {"", "  "}
          IN  /\ dbViews' # dbViews => (req.method = "POST" /\ parsed /\ named)
              /\ req.method = "OPTIONS" => edge'.status = 200
              /\ req.method \notin {"OPTIONS", "POST"} => edge'.status = 405
              /\ (req.method = "POST" /\ ~parsed) => edge'.status = 400
              /\ (req.method = "POST" /\ parsed /\ ~named) => edge'.status = 400
              /\ edge'.dbFailed => edge'.status = 500]_vars

====
